---- MODULE Spec2Model ----
(***************************************************************************)
(* Availability-aware matching of rides to drivers (roby870/rides-drivers). *)
(*                                                                         *)
(* Part 1: the augmented interval tree of interval_tree.py, as a value:    *)
(* a node is a record [low, high, max, left, right], the empty subtree is  *)
(* None.  Every method is an operator that returns the new root.           *)
(***************************************************************************)
EXTENDS Integers, Sequences, FiniteSets, TLC

VARIABLES tree, call,
          rides, drivers, graph, assignments, pc, idx, scored, input_rides,
          input_drivers, path_query

treeVars == <<tree, call>>
runVars == <<rides, drivers, graph, assignments, pc, idx, scored, input_rides, input_drivers, path_query>>
vars == <<tree, call, rides, drivers, graph, assignments, pc, idx, scored, input_rides, input_drivers, path_query>>

\* ------------------------------------------------------------------ bounds
\* times are 0..MaxTime
MaxTime == 3
\* insert_interval is called on trees of fewer than MaxInserted intervals
MaxInserted == 2
\* modify_intervals is called when it leaves at most MaxNodes intervals
MaxNodes == 3

Time == 0..MaxTime

\* ------------------------------------------------------- interval_node.py
None == <<>>

IntervalNode(low, high) ==
    [low |-> low, high |-> high, max |-> high, left |-> None, right |-> None]

Max2(a, b) == IF a >= b THEN a ELSE b

\* ------------------------------------------------------- interval_tree.py
\* faulty variant of _insert: an equal low goes to the left
RECURSIVE _insert_TiesLeft(_, _, _)
_insert_TiesLeft(root, low, high) ==
    IF root = None THEN IntervalNode(low, high)
    ELSE LET r1 == IF low <= root.low
                   THEN [root EXCEPT !.left = _insert_TiesLeft(root.left, low, high)]
                   ELSE [root EXCEPT !.right = _insert_TiesLeft(root.right, low, high)]
         IN  [r1 EXCEPT !.max = Max2(r1.max, high)]

RECURSIVE _insert(_, _, _)
_insert(root, low, high) ==
    IF root = None THEN IntervalNode(low, high)
    ELSE LET r1 == IF low < root.low
                   THEN [root EXCEPT !.left = _insert(root.left, low, high)]
                   ELSE [root EXCEPT !.right = _insert(root.right, low, high)]
         IN  [r1 EXCEPT !.max = Max2(r1.max, high)]

insert_interval(root, low, high) ==
    IF root = None THEN IntervalNode(low, high) ELSE _insert(root, low, high)

\* faulty variant of _do_overlap: every stored interval is taken to overlap
_do_overlap_Always(interval1, interval2) == TRUE

_do_overlap(interval1, interval2) ==
    interval1.low <= interval2.high /\ interval2.low <= interval1.high

\* faulty variant of _search_overlap: the left subtree is entered only when
\* its max is greater than low
RECURSIVE _search_overlap_StrictPrune(_, _, _)
_search_overlap_StrictPrune(root, low, high) ==
    IF root = None THEN <<>>
    ELSE LET interval == IntervalNode(low, high)
             own == IF _do_overlap(root, interval)
                    THEN << <<root.low, root.high>> >> ELSE <<>>
             lft == IF root.left # None /\ root.left.max > low
                    THEN _search_overlap_StrictPrune(root.left, low, high) ELSE <<>>
         IN  own \o lft \o _search_overlap_StrictPrune(root.right, low, high)

RECURSIVE _search_overlap(_, _, _)
_search_overlap(root, low, high) ==
    IF root = None THEN <<>>
    ELSE LET interval == IntervalNode(low, high)
             own == IF _do_overlap(root, interval)
                    THEN << <<root.low, root.high>> >> ELSE <<>>
             lft == IF root.left # None /\ root.left.max >= low
                    THEN _search_overlap(root.left, low, high) ELSE <<>>
         IN  own \o lft \o _search_overlap(root.right, low, high)

_find_overlaps(root, low, high) == _search_overlap(root, low, high)

RECURSIVE _find_min(_)
_find_min(root) == IF root.left # None THEN _find_min(root.left) ELSE root

\* faulty variant of RefreshMax: max is left as it was
RefreshMax_Stale(root) == root

\* the refresh of max at the end of _delete_interval
RefreshMax(root) ==
    IF root.left = None /\ root.right = None THEN [root EXCEPT !.max = root.high]
    ELSE IF root.left = None
         THEN [root EXCEPT !.max = Max2(root.high, root.right.max)]
    ELSE IF root.right = None
         THEN [root EXCEPT !.max = Max2(root.high, root.left.max)]
    ELSE [root EXCEPT !.max = Max2(root.high, Max2(root.left.max, root.right.max))]

\* faulty variant of _delete_interval: a node with the low of the key is
\* taken for the interval, whatever its high
RECURSIVE _delete_interval_ByLow(_, _, _)
_delete_interval_ByLow(root, low, high) ==
    IF root = None THEN None
    ELSE IF low < root.low
         THEN RefreshMax([root EXCEPT !.left = _delete_interval_ByLow(root.left, low, high)])
    ELSE IF low > root.low
         THEN RefreshMax([root EXCEPT !.right = _delete_interval_ByLow(root.right, low, high)])
    ELSE IF root.left = None THEN root.right
         ELSE IF root.right = None THEN root.left
         ELSE LET temp == _find_min(root.right)
              IN  RefreshMax([root EXCEPT
                      !.low = temp.low, !.high = temp.high,
                      !.right = _delete_interval_ByLow(root.right, temp.low, temp.high)])

RECURSIVE _delete_interval(_, _, _)
_delete_interval(root, low, high) ==
    IF root = None THEN None
    ELSE IF low < root.low
         THEN RefreshMax([root EXCEPT !.left = _delete_interval(root.left, low, high)])
    ELSE IF low > root.low
         THEN RefreshMax([root EXCEPT !.right = _delete_interval(root.right, low, high)])
    ELSE IF root.low = low /\ root.high = high
         THEN IF root.left = None THEN root.right
              ELSE IF root.right = None THEN root.left
              ELSE LET temp == _find_min(root.right)
                   IN  RefreshMax([root EXCEPT
                           !.low = temp.low, !.high = temp.high,
                           !.right = _delete_interval(root.right, temp.low, temp.high)])
    \* same low, other high: no branch is taken, only the refresh runs
    ELSE RefreshMax(root)

_delete(root, low, high) == _delete_interval(root, low, high)

\* faulty variant of ModifyLoop: the left remainder is reinserted up to high
RECURSIVE ModifyLoop_LeftUpToHigh(_, _, _, _)
ModifyLoop_LeftUpToHigh(root, overlapping_intervals, low, high) ==
    IF overlapping_intervals = <<>> THEN root
    ELSE LET interval == Head(overlapping_intervals)
             r1 == _delete(root, interval[1], interval[2])
             r2 == IF interval[1] < low
                   THEN insert_interval(r1, interval[1], high) ELSE r1
             r3 == IF high < interval[2]
                   THEN insert_interval(r2, high, interval[2]) ELSE r2
         IN  ModifyLoop_LeftUpToHigh(r3, Tail(overlapping_intervals), low, high)

\* faulty variant of ModifyLoop: the right remainder is reinserted from low
RECURSIVE ModifyLoop_RightFromLow(_, _, _, _)
ModifyLoop_RightFromLow(root, overlapping_intervals, low, high) ==
    IF overlapping_intervals = <<>> THEN root
    ELSE LET interval == Head(overlapping_intervals)
             r1 == _delete(root, interval[1], interval[2])
             r2 == IF interval[1] < low
                   THEN insert_interval(r1, interval[1], low) ELSE r1
             r3 == IF high < interval[2]
                   THEN insert_interval(r2, low, interval[2]) ELSE r2
         IN  ModifyLoop_RightFromLow(r3, Tail(overlapping_intervals), low, high)

\* faulty variant of ModifyLoop: the right remainder ends a minute late
RECURSIVE ModifyLoop_Widened(_, _, _, _)
ModifyLoop_Widened(root, overlapping_intervals, low, high) ==
    IF overlapping_intervals = <<>> THEN root
    ELSE LET interval == Head(overlapping_intervals)
             r1 == _delete(root, interval[1], interval[2])
             r2 == IF interval[1] < low
                   THEN insert_interval(r1, interval[1], low) ELSE r1
             r3 == IF high < interval[2]
                   THEN insert_interval(r2, high, interval[2] + 1) ELSE r2
         IN  ModifyLoop_Widened(r3, Tail(overlapping_intervals), low, high)

\* the body of the for loop of modify_intervals, over the list computed first
RECURSIVE ModifyLoop(_, _, _, _)
ModifyLoop(root, overlapping_intervals, low, high) ==
    IF overlapping_intervals = <<>> THEN root
    ELSE LET interval == Head(overlapping_intervals)
             r1 == _delete(root, interval[1], interval[2])
             r2 == IF interval[1] < low
                   THEN insert_interval(r1, interval[1], low) ELSE r1
             r3 == IF high < interval[2]
                   THEN insert_interval(r2, high, interval[2]) ELSE r2
         IN  ModifyLoop(r3, Tail(overlapping_intervals), low, high)

modify_intervals(root, low, high) ==
    ModifyLoop(root, _find_overlaps(root, low, high), low, high)

\* faulty variant of _is_available: the right subtree is searched only when the left
\* one was pruned
RECURSIVE _is_available_LeftOrRight(_, _, _)
_is_available_LeftOrRight(node, low, high) ==
    IF node = None THEN FALSE
    ELSE IF low >= node.low /\ high <= node.high THEN TRUE
    ELSE IF node.left # None /\ node.left.max >= low
         THEN _is_available_LeftOrRight(node.left, low, high)
    ELSE _is_available_LeftOrRight(node.right, low, high)

\* faulty variant of _is_available: an interval that overlaps the query
\* answers it
RECURSIVE _is_available_Overlapping(_, _, _)
_is_available_Overlapping(node, low, high) ==
    IF node = None THEN FALSE
    ELSE IF low <= node.high /\ high >= node.low THEN TRUE
    ELSE IF node.left # None /\ node.left.max >= low
            /\ _is_available_Overlapping(node.left, low, high) THEN TRUE
    ELSE _is_available_Overlapping(node.right, low, high)

RECURSIVE _is_available(_, _, _)
_is_available(node, low, high) ==
    IF node = None THEN FALSE
    ELSE IF low >= node.low /\ high <= node.high THEN TRUE
    ELSE IF node.left # None /\ node.left.max >= low
            /\ _is_available(node.left, low, high) THEN TRUE
    ELSE _is_available(node.right, low, high)

is_available(root, low, high) == _is_available(root, low, high)

\* ------------------------------------------- observers used by the claims
RECURSIVE Size(_)
Size(root) == IF root = None THEN 0 ELSE 1 + Size(root.left) + Size(root.right)

\* the stored intervals, in pre-order, one entry per node
RECURSIVE Nodes(_)
Nodes(root) ==
    IF root = None THEN <<>>
    ELSE << <<root.low, root.high>> >> \o Nodes(root.left) \o Nodes(root.right)

Stored(root) == LET ns == Nodes(root) IN {ns[i] : i \in 1..Len(ns)}

Overlap(a, b) == a[1] <= b[2] /\ b[1] <= a[2]

Contains(iv, x, y) == iv[1] <= x /\ y <= iv[2]

NoOverlap(root) ==
    LET ns == Nodes(root)
    IN  \A i, j \in 1..Len(ns) : i # j => ~Overlap(ns[i], ns[j])

\* ------------------------------------------------ IntervalTree as a machine
NoCall == [op |-> "init", low |-> 0, high |-> 0, result |-> FALSE]

\* _dijkstra has not been called
NoPathQuery == [start |-> 0, end |-> 0, result |-> <<>>, called |-> FALSE]

\* no matching run is in progress
RunIdle ==
    /\ rides = <<>> /\ drivers = <<>> /\ graph = <<>> /\ assignments = <<>>
    /\ pc = "idle" /\ idx = 0 /\ input_rides = <<>> /\ input_drivers = <<>>
    /\ scored = [best_driver |-> 0, distance_to_pickup |-> <<>>, available |-> <<>>]

TreeInit ==
    /\ tree = None
    /\ call = NoCall
    /\ RunIdle
    /\ path_query = NoPathQuery

TreeInsert ==
    \E low, high \in Time :
        /\ low < high
        /\ Size(tree) < MaxInserted
        /\ tree' = insert_interval(tree, low, high)
        /\ call' = [op |-> "insert", low |-> low, high |-> high, result |-> FALSE]
        /\ UNCHANGED runVars

TreeModify ==
    \E low, high \in Time :
        /\ low <= high
        /\ LET modified == modify_intervals(tree, low, high)
           IN  /\ Size(modified) <= MaxNodes
               /\ tree' = modified
        /\ call' = [op |-> "modify", low |-> low, high |-> high, result |-> FALSE]
        /\ UNCHANGED runVars

TreeQuery ==
    \E low, high \in Time :
        /\ low <= high
        /\ tree' = tree
        /\ call' = [op |-> "query", low |-> low, high |-> high,
                    result |-> is_available(tree, low, high)]
        /\ UNCHANGED runVars

TreeNext == TreeInsert \/ TreeModify \/ TreeQuery

SpecTree == TreeInit /\ [][TreeNext]_vars

\* ---------------------------------------------------- claims on the tree

\* C1 (as stated): after any sequence of insert_interval(low, high) calls with
\* low < high and modify_intervals calls, no two stored intervals overlap
\* (a.low <= b.high and b.low <= a.high).
C1_NoOverlapAfterAnyCalls == NoOverlap(tree)

\* the call that leads to the next state keeps the stored intervals apart:
\* an insert of an interval that overlaps no stored one, or a reservation of
\* positive length
DisjointCall ==
    \/ /\ call'.op = "insert"
       /\ call'.low < call'.high
       /\ \A iv \in Stored(tree) : ~Overlap(iv, <<call'.low, call'.high>>)
    \/ /\ call'.op = "modify"
       /\ call'.low < call'.high

\* C1 (amended): when no two stored intervals overlap, they still do not
\* overlap after insert_interval(low, high) with low < high of an interval
\* that overlaps no stored interval, and after modify_intervals(low, high)
\* with low < high.
C1_NoOverlapPreserved ==
    [][(DisjointCall /\ NoOverlap(tree)) => NoOverlap(tree')]_vars

\* a reservation of positive length has split a stored interval of a tree
\* without overlaps: both remainders are stored
C1_Witness ==
    /\ call.op = "modify" /\ call.low < call.high
    /\ Size(tree) >= 2 /\ NoOverlap(tree)
    /\ \E a, b \in Stored(tree) : a[2] = call.low /\ b[1] = call.high

\* C2: is_available(x, y) is true iff some stored interval [a, b] has a <= x
\* and y <= b, in every tree reached by insert_interval and modify_intervals
\* calls; false on the empty tree; the pruning on left.max >= x hides nothing.
C2_ContainmentQuery ==
    call.op = "query" =>
        (call.result <=> \E iv \in Stored(tree) : Contains(iv, call.low, call.high))

\* a query answered true by an interval of the right subtree, after the left
\* subtree was pruned (left.max < x)
C2_Witness ==
    /\ call.op = "query" /\ call.result
    /\ tree # None /\ tree.left # None /\ tree.left.max < call.low
    /\ ~Contains(<<tree.low, tree.high>>, call.low, call.high)

\* C3: for a stored interval [a, b] and a reservation a <= low <= high <= b,
\* after modify_intervals(low, high): is_available(a, low) if a < low,
\* is_available(high, b) if high < b, and is_available(low, high) only if some
\* other stored interval contains [low, high].  Stated for reservations of
\* positive length (low < high), where no remainder can contain [low, high].
C3_ReservationCorrect ==
    [][(call'.op = "modify" /\ call'.low < call'.high) =>
        \A iv \in Stored(tree) :
            (iv[1] <= call'.low /\ call'.high <= iv[2]) =>
                /\ iv[1] < call'.low => is_available(tree', iv[1], call'.low)
                /\ call'.high < iv[2] => is_available(tree', call'.high, iv[2])
                /\ is_available(tree', call'.low, call'.high) =>
                       \E other \in Stored(tree') \ {iv} :
                           Contains(other, call'.low, call'.high)]_vars

\* what modify_intervals(low, high) is to leave of the stored interval iv
Remainders(iv, low, high) ==
    IF iv[1] <= high /\ low <= iv[2]
    THEN (IF iv[1] < low THEN {<<iv[1], low>>} ELSE {})
         \cup (IF high < iv[2] THEN {<<high, iv[2]>>} ELSE {})
    ELSE {iv}

\* C4: after modify_intervals(low, high) the stored set is the previous one
\* with every interval [a, b], a <= high and low <= b, replaced by [a, low]
\* when a < low and [high, b] when high < b, the others kept.
C4_SubtractsWindow ==
    [][call'.op = "modify" =>
        Stored(tree') =
            UNION {Remainders(iv, call'.low, call'.high) : iv \in Stored(tree)}]_vars

\* C16: a query window that spans two touching stored intervals [a, m] and
\* [m, b], with x < m < y, a <= x and y <= b, and no single stored interval
\* containing [x, y], is reported unavailable by is_available(x, y); so a
\* driver whose free time is split inside the adjusted window is not eligible.
C16_SpanningQueryUnavailable ==
    (/\ call.op = "query"
     /\ \E left, right \in Stored(tree) :
           /\ left[2] = right[1]
           /\ call.low < left[2] /\ left[2] < call.high
           /\ left[1] <= call.low /\ call.high <= right[2]
     /\ \A iv \in Stored(tree) : ~Contains(iv, call.low, call.high))
        => ~call.result

\* the query [x, y] was answered on a tree that stores exactly two touching
\* intervals which together cover it
C16_Witness ==
    /\ call.op = "query" /\ ~call.result
    /\ Size(tree) = 2
    /\ \E left, right \in Stored(tree) :
          /\ left[2] = right[1]
          /\ left[1] <= call.low /\ call.low < left[2]
          /\ left[2] < call.high /\ call.high <= right[2]

\* C17: modify_intervals(low, high) on a tree in which no stored interval
\* overlaps [low, high] (the empty tree included) leaves the stored intervals
\* unchanged, so is_available gives the same answer for every query before
\* and after the call.
C17_NoOverlapNoChange ==
    [][(/\ call'.op = "modify"
        /\ \A iv \in Stored(tree) : ~Overlap(iv, <<call'.low, call'.high>>)) =>
            /\ Nodes(tree') = Nodes(tree)
            /\ \A x, y \in Time :
                  x <= y => (is_available(tree', x, y) <=> is_available(tree, x, y))]_vars

\* a reservation was made beside the two stored intervals of a tree
C17_Witness ==
    /\ call.op = "modify"
    /\ Size(tree) = 2
    /\ \A iv \in Stored(tree) : ~Overlap(iv, <<call.low, call.high>>)
    /\ \E iv \in Stored(tree) : call.high < iv[1]

\* the greatest high of the intervals of a non-empty subtree
MaxHigh(root) ==
    LET ns == Nodes(root)
    IN  CHOOSE h \in {ns[i][2] : i \in 1..Len(ns)} :
            \A i \in 1..Len(ns) : ns[i][2] <= h

RECURSIVE MaxIsSubtreeMax(_)
MaxIsSubtreeMax(root) ==
    \/ root = None
    \/ /\ root.max = MaxHigh(root)
       /\ MaxIsSubtreeMax(root.left)
       /\ MaxIsSubtreeMax(root.right)

\* C27: after any sequence of insert_interval and modify_intervals calls,
\* every node's max field equals the greatest high over the subtree rooted
\* at that node.
C27_MaxIsSubtreeMax == MaxIsSubtreeMax(tree)

\* after a reservation the root has two children and its max is the high of
\* a node below it
C27_Witness ==
    /\ call.op = "modify"
    /\ tree # None /\ tree.left # None /\ tree.right # None
    /\ tree.max # tree.high

\* the lows of the intervals of a subtree
Lows(root) == {iv[1] : iv \in Stored(root)}

RECURSIVE IsSearchTree(_)
IsSearchTree(root) ==
    \/ root = None
    \/ /\ \A l \in Lows(root.left) : l < root.low
       /\ \A l \in Lows(root.right) : l >= root.low
       /\ IsSearchTree(root.left)
       /\ IsSearchTree(root.right)

TwoChildren(root) == root # None /\ root.left # None /\ root.right # None

\* C28: after any sequence of insert_interval and modify_intervals calls the
\* tree is a binary search tree keyed by low with ties to the right: the lows
\* of a node's left subtree are strictly smaller than the node's low, the
\* lows of its right subtree are greater or equal; and the tree is still one
\* after the deletion of a node with two children, which gets the interval
\* of its in-order successor.
C28_SearchTreeTiesRight ==
    /\ IsSearchTree(tree)
    /\ TwoChildren(tree) => IsSearchTree(_delete(tree, tree.low, tree.high))

\* the root has two children, the right one with the low of the root
C28_Witness ==
    /\ TwoChildren(tree)
    /\ tree.right.low = tree.low

\* how many nodes of the subtree hold the interval
Count(root, iv) ==
    LET ns == Nodes(root) IN Cardinality({i \in 1..Len(ns) : ns[i] = iv})

\* C29: deletion by exact key: for every stored interval (low, high) of a
\* tree reached by insert_interval and modify_intervals calls,
\* _delete(low, high) removes one node holding (low, high) and leaves every
\* other stored interval, also when several stored intervals share a low.
C29_DeleteRemovesExactlyOne ==
    \A iv \in Stored(tree) :
        LET after == _delete(tree, iv[1], iv[2])
        IN  \A other \in Stored(tree) \cup Stored(after) :
                Count(after, other) = Count(tree, other) - (IF other = iv THEN 1 ELSE 0)

\* the stored intervals that overlap [low, high], by a scan of all nodes
ScanOverlaps(root, low, high) ==
    SelectSeq(Nodes(root), LAMBDA iv : iv[1] <= high /\ low <= iv[2])

\* C30: _find_overlaps(low, high) returns exactly the stored intervals
\* [a, b] with a <= high and low <= b, each node once: the traversal that
\* enters a left subtree only when left.max >= low returns what a scan of
\* all nodes returns.
C30_FindOverlapsIsScan ==
    \A low, high \in Time :
        _find_overlaps(tree, low, high) = ScanOverlaps(tree, low, high)

\* for some window the left subtree of the root is not entered, and the
\* search returns some but not all of the stored intervals
C30_Witness ==
    /\ tree # None /\ tree.left # None
    /\ \E low, high \in Time :
          /\ low <= high
          /\ tree.left.max < low
          /\ _find_overlaps(tree, low, high) # <<>>
          /\ Len(_find_overlaps(tree, low, high)) < Size(tree) - Size(tree.left)

\* the stored intervals that a reservation of [low, high] splits in two
SplitBy(root, low, high) == {iv \in Stored(root) : iv[1] < low /\ high < iv[2]}

\* C31: a reservation preserves disjointness: when the stored intervals are
\* pairwise disjoint before modify_intervals(low, high) with low < high,
\* they are pairwise disjoint afterwards, and the two remainders [a, low] and
\* [high, b] of an interval that was split are stored and neither touch nor
\* overlap.
C31_ReservationKeepsDisjoint ==
    [][(call'.op = "modify" /\ call'.low < call'.high /\ NoOverlap(tree)) =>
        /\ NoOverlap(tree')
        /\ \A iv \in SplitBy(tree, call'.low, call'.high) :
              /\ <<iv[1], call'.low>> \in Stored(tree')
              /\ <<call'.high, iv[2]>> \in Stored(tree')
              /\ ~Overlap(<<iv[1], call'.low>>, <<call'.high, iv[2]>>)]_vars

\* the reservation of [1, 2] has split [0, 3] into [0, 1] and [2, 3]
C31_Witness ==
    /\ call = [op |-> "modify", low |-> 1, high |-> 2, result |-> FALSE]
    /\ Nodes(tree) = << <<0, 1>>, <<2, 3>> >>

\* C36: _delete(low, high) of an interval that is not stored is a silent
\* no-op: the tree after is the tree before, node by node and max field by
\* max field, so the stored intervals are unchanged, and in it max is the
\* subtree maximum and the order is that of a search tree with ties to the
\* right.
C36_DeleteOfAbsentIsNoOp ==
    /\ \A low, high \in Time :
          <<low, high>> \notin Stored(tree) => _delete(tree, low, high) = tree
    /\ MaxIsSubtreeMax(tree)
    /\ IsSearchTree(tree)

\* the tree holds an interval with the low of an interval that is not
\* stored, below a root with another low
C36_Witness ==
    /\ Size(tree) >= 2
    /\ \E iv \in Stored(tree), high \in Time :
          /\ iv[1] # tree.low
          /\ iv[1] < high
          /\ <<iv[1], high>> \notin Stored(tree)

\* ------------------------- insert_interval on any pair of times (low, high)
TreeInsertAny ==
    \E low, high \in Time :
        /\ Size(tree) < MaxInserted
        /\ tree' = insert_interval(tree, low, high)
        /\ call' = [op |-> "insert", low |-> low, high |-> high, result |-> FALSE]
        /\ UNCHANGED runVars

InsertAnyNext == TreeInsertAny

SpecInsertAny == TreeInit /\ [][InsertAnyNext]_vars

\* C15: insert_interval(low, high) with low >= high is rejected with an
\* InvalidInterval error and the stored intervals are unchanged; no
\* degenerate interval is ever stored.
C15_DegenerateInsertRejected ==
    [][(call'.op = "insert" /\ call'.low >= call'.high) =>
        /\ Stored(tree') = Stored(tree)
        /\ \A iv \in Stored(tree') : iv[1] < iv[2]]_vars

(***************************************************************************)
(* Part 2: the matching run of main.py, ride.py and driver.py.             *)
(* Times are minutes, locations are mile marks along one road, so that the *)
(* great-circle distance of two locations is the difference of their marks.*)
(***************************************************************************)

\* ------------------------------------------------------------------ bounds
MaxRides == 2
MaxDrivers == 2

\* ------------------------------------------------------------- constants
\* MILES_PER_MINUTE = 0.25: one mile takes four minutes
MinutesPerMile == 4
\* float('inf')
inf == -1

\* ---------------------------------------------------------------- ride.py
Ride(pickup_time, pickup_location, pickup_address, dropoff_location, dropoff_address, estimated_ride_duration) ==
    [pickup_time |-> pickup_time,
     pickup_location |-> pickup_location,
     pickup_address |-> pickup_address,
     dropoff_location |-> dropoff_location,
     dropoff_address |-> dropoff_address,
     estimated_ride_duration |-> estimated_ride_duration]

\* -------------------------------------------------------------- driver.py
RECURSIVE InsertWindows(_, _)
InsertWindows(root, availability) ==
    IF availability = <<>> THEN root
    ELSE InsertWindows(insert_interval(root, Head(availability)[1], Head(availability)[2]),
                       Tail(availability))

Driver(driver_id, hourly_rate, location, availability) ==
    [driver_id |-> driver_id,
     hourly_rate |-> hourly_rate,
     location |-> location,
     availability |-> availability,
     interval_tree |-> InsertWindows(None, availability)]

has_available_intervals(driver, start_time, end_time) ==
    is_available(driver.interval_tree, start_time, end_time)

\* faulty variant of reserve_interval: the window stays free
reserve_interval_Nothing(driver, start_time, end_time) == driver

reserve_interval(driver, start_time, end_time) ==
    [driver EXCEPT !.interval_tree = modify_intervals(@, start_time, end_time)]

\* ---------------------------------------------------------------- main.py
haversine(coord1, coord2) ==
    IF coord1 >= coord2 THEN coord1 - coord2 ELSE coord2 - coord1

\* distance_miles / MILES_PER_MINUTE
TravelTime(from, to) == haversine(from, to) * MinutesPerMile

AddKey(g, location) ==
    IF location \in DOMAIN g THEN g ELSE g @@ (location :> <<>>)

\* all(to != t[0] for t in graph[from]) is the negation of this
HasNeighbor(g, from, to) == \E n \in 1..Len(g[from]) : g[from][n][1] = to

\* faulty variant of AddRideEdges: no edge back from the drop-off
RECURSIVE AddRideEdges_OneWay(_, _)
AddRideEdges_OneWay(g, rs) ==
    IF rs = <<>> THEN g
    ELSE LET ride == Head(rs)
             g1 == AddKey(AddKey(g, ride.pickup_location), ride.dropoff_location)
             g2 == [g1 EXCEPT ![ride.pickup_location] =
                       Append(@, <<ride.dropoff_location, ride.estimated_ride_duration>>)]
         IN  AddRideEdges_OneWay(g2, Tail(rs))

\* first loop of build_graph: the two edges of every ride
RECURSIVE AddRideEdges(_, _)
AddRideEdges(g, rs) ==
    IF rs = <<>> THEN g
    ELSE LET ride == Head(rs)
             g1 == AddKey(AddKey(g, ride.pickup_location), ride.dropoff_location)
             g2 == [g1 EXCEPT ![ride.pickup_location] =
                       Append(@, <<ride.dropoff_location, ride.estimated_ride_duration>>)]
             g3 == [g2 EXCEPT ![ride.dropoff_location] =
                       Append(@, <<ride.pickup_location, ride.estimated_ride_duration>>)]
         IN  AddRideEdges(g3, Tail(rs))

\* faulty variant of AddIdleEdges: the edge is added whatever the list holds
RECURSIVE AddIdleEdges_Always(_, _, _)
AddIdleEdges_Always(g, dropoff_location, rs) ==
    IF rs = <<>> THEN g
    ELSE LET ride == Head(rs)
             g1 == [g EXCEPT ![dropoff_location] =
                       Append(@, <<ride.pickup_location,
                                   TravelTime(dropoff_location, ride.pickup_location)>>)]
         IN  AddIdleEdges_Always(g1, dropoff_location, Tail(rs))

\* inner loop of the second loop: idle travel from one drop-off to the pickups
RECURSIVE AddIdleEdges(_, _, _)
AddIdleEdges(g, dropoff_location, rs) ==
    IF rs = <<>> THEN g
    ELSE LET ride == Head(rs)
             g1 == IF ~HasNeighbor(g, dropoff_location, ride.pickup_location)
                   THEN [g EXCEPT ![dropoff_location] =
                            Append(@, <<ride.pickup_location,
                                        TravelTime(dropoff_location, ride.pickup_location)>>)]
                   ELSE g
         IN  AddIdleEdges(g1, dropoff_location, Tail(rs))

\* faulty variant of AddDropoffEdges: no edge from a drop-off to the pickups
AddDropoffEdges_None(g, dropoff_locations, rs) == g

\* second loop of build_graph, over dropoff_locations
RECURSIVE AddDropoffEdges(_, _, _)
AddDropoffEdges(g, dropoff_locations, rs) ==
    IF dropoff_locations = <<>> THEN g
    ELSE AddDropoffEdges(AddIdleEdges(g, Head(dropoff_locations), rs),
                         Tail(dropoff_locations), rs)

\* any(start <= ride.pickup_time <= end for start, end in driver.availability)
InAvailability(driver, ride) ==
    \E n \in 1..Len(driver.availability) :
        /\ driver.availability[n][1] <= ride.pickup_time
        /\ ride.pickup_time <= driver.availability[n][2]

\* faulty variant of AddDriverEdges: the edge goes to the ride's drop-off
RECURSIVE AddDriverEdges_ToDropoff(_, _, _)
AddDriverEdges_ToDropoff(g, driver, rs) ==
    IF rs = <<>> THEN g
    ELSE LET ride == Head(rs)
             g1 == IF /\ InAvailability(driver, ride)
                      /\ ~HasNeighbor(g, driver.location, ride.dropoff_location)
                   THEN [g EXCEPT ![driver.location] =
                            Append(@, <<ride.dropoff_location,
                                        TravelTime(driver.location, ride.dropoff_location)>>)]
                   ELSE g
         IN  AddDriverEdges_ToDropoff(g1, driver, Tail(rs))

\* inner loop of the third loop: a new driver location to the pickups
RECURSIVE AddDriverEdges(_, _, _)
AddDriverEdges(g, driver, rs) ==
    IF rs = <<>> THEN g
    ELSE LET ride == Head(rs)
             g1 == IF /\ InAvailability(driver, ride)
                      /\ ~HasNeighbor(g, driver.location, ride.pickup_location)
                   THEN [g EXCEPT ![driver.location] =
                            Append(@, <<ride.pickup_location,
                                        TravelTime(driver.location, ride.pickup_location)>>)]
                   ELSE g
         IN  AddDriverEdges(g1, driver, Tail(rs))

\* faulty variant of AddDriverLocations: driver locations get no key
AddDriverLocations_RidesOnly(g, ds, rs) == g

\* third loop of build_graph, over drivers
RECURSIVE AddDriverLocations(_, _, _)
AddDriverLocations(g, ds, rs) ==
    IF ds = <<>> THEN g
    ELSE LET driver == Head(ds)
             g1 == IF driver.location \notin DOMAIN g
                   THEN AddDriverEdges(AddKey(g, driver.location), driver, rs)
                   ELSE g
         IN  AddDriverLocations(g1, Tail(ds), rs)

build_graph(rs, ds) ==
    LET g1 == AddRideEdges(<<>>, rs)
        dropoff_locations == [n \in 1..Len(rs) |-> rs[n].dropoff_location]
        g2 == AddDropoffEdges(g1, dropoff_locations, rs)
    IN  AddDriverLocations(g2, ds, rs)

\* ------------------------------------------------------ ride.py: _dijkstra
\* a < b on floats, where either side may be float('inf')
Less(a, b) == a # inf /\ (b = inf \/ a < b)

\* faulty variant of PopMin: the greatest tuple is popped
PopMin_Greatest(queue) ==
    CHOOSE e \in queue :
        \A f \in queue : e[1] > f[1] \/ (e[1] = f[1] /\ e[2] >= f[2])

\* heapq.heappop on (distance, node) tuples: the least tuple
PopMin(queue) ==
    CHOOSE e \in queue :
        \A f \in queue : e[1] < f[1] \/ (e[1] = f[1] /\ e[2] <= f[2])

\* the for loop over graph[current_node]; st = [queue, distances]
RECURSIVE Relax(_, _, _)
Relax(st, edges, current_distance) ==
    IF edges = <<>> THEN st
    ELSE LET neighbor == Head(edges)[1]
             weight == Head(edges)[2]
             distance == current_distance + weight
             st1 == IF Less(distance, st.distances[neighbor])
                    THEN [queue |-> st.queue \cup {<<distance, neighbor>>},
                          distances |-> [st.distances EXCEPT ![neighbor] = distance]]
                    ELSE st
         IN  Relax(st1, Tail(edges), current_distance)

\* the while loop; the result is <<minutes>>, or None when the code returns None
RECURSIVE DijkstraLoop(_, _, _, _, _)
DijkstraLoop(g, end, queue, distances, visited) ==
    IF queue = {}
    THEN IF distances[end] # inf THEN <<distances[end]>> ELSE None
    ELSE LET current_distance == PopMin(queue)[1]
             current_node == PopMin(queue)[2]
             rest == queue \ {PopMin(queue)}
         IN  IF current_node \in visited
             THEN DijkstraLoop(g, end, rest, distances, visited)
             ELSE IF current_node = end THEN <<current_distance>>
             ELSE IF current_distance > distances[current_node]
                  THEN DijkstraLoop(g, end, rest, distances, visited \cup {current_node})
             ELSE LET st == Relax([queue |-> rest, distances |-> distances],
                                  g[current_node], current_distance)
                  IN  DijkstraLoop(g, end, st.queue, st.distances,
                                   visited \cup {current_node})

_dijkstra(g, start, end) ==
    DijkstraLoop(g, end, {<<0, start>>},
                 [n \in DOMAIN g \cup {start} |-> IF n = start THEN 0 ELSE inf], {})

\* ----------------------------------------------- ride.py: find_best_driver
RideEndTime(ride) == ride.pickup_time + ride.estimated_ride_duration

\* faulty variant of AdjustedStart: the travel time is not taken off the pickup time
AdjustedStart_NoTravel(ride, distance_to_pickup) == ride.pickup_time

\* self.pickup_time - timedelta(minutes=distance_to_pickup)
AdjustedStart(ride, distance_to_pickup) == ride.pickup_time - distance_to_pickup

\* faulty variant of SelectDriver: no elif, the hourly rate never breaks a tie
SelectDriver_NoTieBreak(st, driver, k, distance_to_pickup) ==
    IF Less(distance_to_pickup, st.min_distance)
    THEN [st EXCEPT !.min_distance = distance_to_pickup,
                    !.hourly_rate = driver.hourly_rate,
                    !.best_driver = k]
    ELSE st

\* the if/elif that keeps the best driver seen so far; k is the driver's
\* position in the list, 0 stands for best_driver = None
SelectDriver(st, driver, k, distance_to_pickup) ==
    IF Less(distance_to_pickup, st.min_distance)
    THEN [st EXCEPT !.min_distance = distance_to_pickup,
                    !.hourly_rate = driver.hourly_rate,
                    !.best_driver = k]
    ELSE IF distance_to_pickup = st.min_distance /\ driver.hourly_rate < st.hourly_rate
    THEN [st EXCEPT !.hourly_rate = driver.hourly_rate, !.best_driver = k]
    ELSE st

\* one iteration of the for loop over drivers; timedelta(minutes=None) raises
\* TypeError, which ends the scan
ScoreDriver(st, ride, driver, k, g) ==
    LET found == _dijkstra(g, driver.location, ride.pickup_location)
    IN  IF found = None
        THEN [st EXCEPT !.raised = TRUE,
                        !.distance_to_pickup = Append(@, found)]
        ELSE LET distance_to_pickup == found[1]
                 free == has_available_intervals(driver,
                             AdjustedStart(ride, distance_to_pickup), RideEndTime(ride))
                 st1 == [st EXCEPT !.distance_to_pickup = Append(@, found),
                                   !.available = Append(@, free)]
             IN  IF ~free THEN st1
                 ELSE SelectDriver(st1, driver, k, distance_to_pickup)

RECURSIVE ScanDrivers(_, _, _, _, _)
ScanDrivers(st, ride, ds, k, g) ==
    IF st.raised \/ k > Len(ds) THEN st
    ELSE ScanDrivers(ScoreDriver(st, ride, ds[k], k, g), ride, ds, k + 1, g)

find_best_driver(ride, ds, g) ==
    ScanDrivers([raised |-> FALSE, best_driver |-> 0, min_distance |-> inf,
                 hourly_rate |-> 0, distance_to_pickup |-> <<>>, available |-> <<>>],
                ride, ds, 1, g)

\* ---------------------------------------- main.py: assign_rides_to_drivers
\* faulty variant of EmptyAssignments: a key appears with the first ride only
EmptyAssignments_Lazy(ds) == <<>>

\* {driver.driver_id: [] for driver in drivers}
EmptyAssignments(ds) == [id \in {ds[k].driver_id : k \in 1..Len(ds)} |-> <<>>]

\* rides.sort(key=lambda x: x.pickup_time), a stable sort
\* faulty variant of InsertByPickupTime: a ride goes in front of the rides
\* with the same pickup_time
RECURSIVE InsertByPickupTime_BeforeEqual(_, _)
InsertByPickupTime_BeforeEqual(sorted, ride) ==
    IF sorted = <<>> THEN <<ride>>
    ELSE IF ride.pickup_time <= Head(sorted).pickup_time THEN <<ride>> \o sorted
    ELSE <<Head(sorted)>> \o InsertByPickupTime_BeforeEqual(Tail(sorted), ride)

RECURSIVE InsertByPickupTime(_, _)
InsertByPickupTime(sorted, ride) ==
    IF sorted = <<>> THEN <<ride>>
    ELSE IF ride.pickup_time < Head(sorted).pickup_time THEN <<ride>> \o sorted
    ELSE <<Head(sorted)>> \o InsertByPickupTime(Tail(sorted), ride)

RECURSIVE SortLoop(_, _)
SortLoop(sorted, rs) ==
    IF rs = <<>> THEN sorted
    ELSE SortLoop(InsertByPickupTime(sorted, Head(rs)), Tail(rs))

\* faulty variant of sort_by_pickup_time: the rides stay in input order
sort_by_pickup_time_Unsorted(rs) == rs

sort_by_pickup_time(rs) == SortLoop(<<>>, rs)

\* faulty variant of MoveTo: the coordinate gets the wrong sign
MoveTo_Mirrored(driver, location) == [driver EXCEPT !.location = 0 - location]

\* faulty variant of MoveTo: the driver stays where it was
MoveTo_Stay(driver, location) == driver

\* best_driver.location = ride.dropoff_location
MoveTo(driver, location) == [driver EXCEPT !.location = location]

\* ------------------------------------------------------- inputs of a run
RidePool ==
    { Ride(8, 0, "r1", 1, "r1", 4),
      Ride(10, 1, "r2", 2, "r2", 6),
      Ride(8, 2, "r3", 1, "r3", 4),
      Ride(16, 1, "r4", 2, "r4", 4) }

\* hourly rate, starting location, free windows
DriverPool ==
    { <<20, 0, << <<0, 40>> >> >>,
      <<18, 0, << <<0, 40>> >> >>,
      <<18, 3, << <<30, 40>> >> >>,
      <<20, 2, << <<0, 40>> >> >>,
      <<20, 1, << <<8, 12>>, <<8, 24>> >> >>,
      <<22, 0, << <<0, 12>>, <<14, 40>> >> >> }

RideLists ==
    UNION { { rs \in [1..n -> RidePool] : \A a, b \in 1..n : a # b => rs[a] # rs[b] }
            : n \in 0..MaxRides }

DriverLists ==
    UNION { { [k \in 1..n |-> Driver(k, cfg[k][1], cfg[k][2], cfg[k][3])]
              : cfg \in [1..n -> DriverPool] }
            : n \in 1..MaxDrivers }

\* ----------------------------------------------------- the run as a machine
RunInit ==
    /\ tree = None
    /\ call = NoCall
    /\ rides \in RideLists
    /\ drivers \in DriverLists
    /\ input_rides = rides
    /\ input_drivers = drivers
    /\ path_query = NoPathQuery
    /\ graph = <<>>
    /\ assignments = <<>>
    /\ pc = "build_graph"
    /\ idx = 0
    /\ scored = [best_driver |-> 0, distance_to_pickup |-> <<>>, available |-> <<>>]

\* graph = build_graph(rides, drivers)
BuildGraph ==
    /\ pc = "build_graph"
    /\ graph' = build_graph(rides, drivers)
    /\ pc' = "assign"
    /\ UNCHANGED <<treeVars, rides, drivers, assignments, idx, scored, input_rides, input_drivers, path_query>>

\* entry of assign_rides_to_drivers: the empty mapping and the sort
BeginAssign ==
    /\ pc = "assign"
    /\ assignments' = EmptyAssignments(drivers)
    /\ rides' = sort_by_pickup_time(rides)
    /\ idx' = 1
    /\ pc' = "loop"
    /\ UNCHANGED <<treeVars, drivers, graph, scored, input_rides, input_drivers, path_query>>

\* faulty variant of GraphAfterScoring: looking up a location empties its list
GraphAfterScoring_Emptied(g) == [location \in DOMAIN g |-> <<>>]

\* the graph after ride.find_best_driver(drivers, graph): _dijkstra only
\* reads graph[current_node], its distances are a dictionary of its own
GraphAfterScoring(g) == g

\* faulty variant of DriversAfterScoring: the availability check consumes
\* the windows it looks at
DriversAfterScoring_Consumed(ds) == [k \in DOMAIN ds |-> [ds[k] EXCEPT !.interval_tree = None]]

\* the drivers after ride.find_best_driver(drivers, graph): location is read
\* and has_available_intervals only walks the tree
DriversAfterScoring(ds) == ds

\* faulty variant of RecordRide: the ride is put in front of the list
RecordRide_InFront(asg, driver_id, ride) == [asg EXCEPT ![driver_id] = <<ride>> \o @]

\* faulty variant of RecordRide: the ride is appended to every list
RecordRide_AllLists(asg, driver_id, ride) == [id \in DOMAIN asg |-> Append(asg[id], ride)]

\* faulty variant of RecordRide: the ride is appended twice
RecordRide_Twice(asg, driver_id, ride) == [asg EXCEPT ![driver_id] = Append(Append(@, ride), ride)]

\* assignments[best_driver.driver_id].append(ride)
RecordRide(asg, driver_id, ride) == [asg EXCEPT ![driver_id] = Append(@, ride)]

ScoringRecord(st) ==
    [best_driver |-> st.best_driver,
     distance_to_pickup |-> st.distance_to_pickup,
     available |-> st.available]

\* one iteration of the for loop, a driver was found
AssignRide ==
    /\ pc = "loop" /\ idx <= Len(rides)
    /\ LET ride == rides[idx]
           st == find_best_driver(ride, drivers, graph)
           b == st.best_driver
       IN  /\ ~st.raised /\ b # 0
           /\ assignments' = RecordRide(assignments, drivers[b].driver_id, ride)
           /\ drivers' = [DriversAfterScoring(drivers) EXCEPT ![b] =
                  MoveTo(reserve_interval(@, ride.pickup_time, RideEndTime(ride)),
                         ride.dropoff_location)]
           /\ scored' = ScoringRecord(st)
    /\ graph' = GraphAfterScoring(graph)
    /\ idx' = idx + 1
    /\ UNCHANGED <<treeVars, rides, pc, input_rides, input_drivers, path_query>>

\* one iteration of the for loop, find_best_driver returned None
LeaveUnassigned ==
    /\ pc = "loop" /\ idx <= Len(rides)
    /\ LET st == find_best_driver(rides[idx], drivers, graph)
       IN  /\ ~st.raised /\ st.best_driver = 0
           /\ scored' = ScoringRecord(st)
    /\ drivers' = DriversAfterScoring(drivers)
    /\ graph' = GraphAfterScoring(graph)
    /\ idx' = idx + 1
    /\ UNCHANGED <<treeVars, rides, assignments, pc, input_rides, input_drivers, path_query>>

\* one iteration of the for loop, find_best_driver raised TypeError
RaiseTypeError ==
    /\ pc = "loop" /\ idx <= Len(rides)
    /\ LET st == find_best_driver(rides[idx], drivers, graph)
       IN  /\ st.raised
           /\ scored' = ScoringRecord(st)
    /\ drivers' = DriversAfterScoring(drivers)
    /\ graph' = GraphAfterScoring(graph)
    /\ pc' = "raised"
    /\ UNCHANGED <<treeVars, rides, assignments, idx, input_rides, input_drivers, path_query>>

\* return assignments
ReturnAssignments ==
    /\ pc = "loop" /\ idx > Len(rides)
    /\ pc' = "done"
    /\ UNCHANGED <<treeVars, rides, drivers, graph, assignments, idx, scored, input_rides, input_drivers, path_query>>

RunNext ==
    \/ BuildGraph
    \/ BeginAssign
    \/ AssignRide
    \/ LeaveUnassigned
    \/ RaiseTypeError
    \/ ReturnAssignments

SpecRun == RunInit /\ [][RunNext]_vars

\* ----------------------------------------------------- claims on the run

\* least element of a non-empty set of numbers
MinOf(S) == CHOOSE x \in S : \A y \in S : x <= y

\* one round of relaxation of every edge of g
RelaxAll(g, dist) ==
    [x \in DOMAIN dist |->
        LET via == UNION { { dist[y] + g[y][n][2] :
                               n \in { m \in 1..Len(g[y]) : g[y][m][1] = x } } :
                           y \in { z \in DOMAIN g : dist[z] # inf } }
            cand == via \cup (IF dist[x] # inf THEN {dist[x]} ELSE {})
        IN  IF cand = {} THEN inf ELSE MinOf(cand)]

RECURSIVE RelaxRounds(_, _, _)
RelaxRounds(g, dist, rounds) ==
    IF rounds = 0 THEN dist
    ELSE LET next == RelaxAll(g, dist)
         IN  IF next = dist THEN dist ELSE RelaxRounds(g, next, rounds - 1)

\* the least total weight of a path from start to end in g, inf if there is
\* none: the shortest-path time the claims speak of
ShortestTime(g, start, end) ==
    LET locs == DOMAIN g \cup {start, end}
    IN  RelaxRounds(g, [x \in locs |-> IF x = start THEN 0 ELSE inf],
                    Cardinality(locs))[end]

DriverIx == 1..Len(drivers)

\* a ride is about to be scored
AboutToScore == pc = "loop" /\ idx <= Len(rides)

\* the ride that is about to be scored
CurrentRide == rides[idx]

\* travel time of every driver to the pickup of the ride about to be scored
TravelTimes ==
    [k \in DriverIx |->
        ShortestTime(graph, drivers[k].location, CurrentRide.pickup_location)]

\* the drivers that are reachable and free for the full adjusted window,
\* travel being their travel times
Eligible(travel) ==
    { k \in DriverIx :
        /\ travel[k] # inf
        /\ is_available(drivers[k].interval_tree,
                        CurrentRide.pickup_time - travel[k],
                        CurrentRide.pickup_time + CurrentRide.estimated_ride_duration) }

\* this step records the ride about to be scored in driver k's list
AssignedTo(k) ==
    /\ AboutToScore
    /\ assignments'[drivers[k].driver_id] =
           Append(assignments[drivers[k].driver_id], CurrentRide)

\* this step is the processing of one ride
ScoringStep == AboutToScore /\ (idx' # idx \/ pc' # pc)

\* C5: when no path leads from a driver's current location to the pickup,
\* the driver is excluded for this ride, scoring goes on with the other
\* drivers and the run does not fail.
C5_UnreachableDriverExcluded ==
    [][ScoringStep =>
        LET travel == TravelTimes
        IN  (\E k \in DriverIx : travel[k] = inf) =>
                /\ pc' = "loop"
                /\ idx' = idx + 1
                /\ \A k \in DriverIx : travel[k] = inf => ~AssignedTo(k)]_vars

\* C6: a driver is assigned a ride only if, when the ride is scored, its tree
\* satisfies is_available(pickup_time - travel_time, pickup_time + duration),
\* travel_time being the shortest-path time from its location to the pickup.
C6_AssignedOnlyIfAvailable ==
    [][\A k \in DriverIx : AssignedTo(k) => k \in Eligible(TravelTimes)]_vars

\* a ride went to a driver that had to travel, a nearer driver not being free
\* for its adjusted window
C6_Witness ==
    /\ pc = "loop" /\ scored.best_driver # 0
    /\ Len(scored.available) = Len(drivers)
    /\ scored.distance_to_pickup[scored.best_driver][1] > 0
    /\ assignments[drivers[scored.best_driver].driver_id] # <<>>
    /\ \E j \in DriverIx :
          /\ ~scored.available[j]
          /\ scored.distance_to_pickup[j][1] <
                 scored.distance_to_pickup[scored.best_driver][1]

\* the eligible drivers of minimal travel time
Nearest(travel, eligible) ==
    { k \in eligible : \A j \in eligible : travel[k] <= travel[j] }

\* C7: if at least one driver is reachable and available for the adjusted
\* window, the ride is assigned, to an eligible driver of minimum travel time.
C7_AssignedToNearestEligible ==
    [][ScoringStep =>
        LET travel == TravelTimes
            eligible == Eligible(travel)
        IN  eligible # {} =>
                \E k \in Nearest(travel, eligible) : AssignedTo(k)]_vars

\* C8: of several eligible drivers with the same minimal travel time the
\* selected one has the lowest hourly rate; with equal rates too, it is the
\* first of them in the drivers list.
C8_TieBreakByRateThenOrder ==
    [][\A k \in DriverIx : AssignedTo(k) =>
        LET travel == TravelTimes
            nearest == Nearest(travel, Eligible(travel))
        IN  /\ k \in nearest
            /\ \A j \in nearest :
                  /\ drivers[k].hourly_rate <= drivers[j].hourly_rate
                  /\ drivers[j].hourly_rate = drivers[k].hourly_rate => k <= j]_vars

\* two drivers were free at the same distance and the second, cheaper one
\* was selected
C8_Witness ==
    /\ pc = "loop" /\ scored.best_driver = 2
    /\ Len(scored.available) = Len(drivers)
    /\ scored.available[1] /\ scored.available[2]
    /\ scored.distance_to_pickup[1] = scored.distance_to_pickup[2]
    /\ drivers[2].hourly_rate < drivers[1].hourly_rate
    /\ assignments[drivers[2].driver_id] # <<>>

\* C9: when a driver is selected, exactly [pickup_time, pickup_time +
\* duration] is subtracted from its free time, the travel-time buffer
\* [pickup_time - travel_time, pickup_time] stays free, and its location
\* becomes the drop-off location.
C9_ReservesRideWindowOnly ==
    [][\A k \in DriverIx : AssignedTo(k) =>
        LET low == CurrentRide.pickup_time
            high == CurrentRide.pickup_time + CurrentRide.estimated_ride_duration
            travel_time == TravelTimes[k]
        IN  /\ Stored(drivers'[k].interval_tree) =
                   UNION { Remainders(iv, low, high) :
                             iv \in Stored(drivers[k].interval_tree) }
            /\ travel_time > 0 =>
                   is_available(drivers'[k].interval_tree, low - travel_time, low)
            /\ drivers'[k].location = CurrentRide.dropoff_location]_vars

\* C10: rides are assigned in non-decreasing pickup_time order and every
\* driver's list is ordered by non-decreasing pickup_time, whatever the order
\* of the input rides.
C10_AssignedInPickupOrder ==
    pc \in {"loop", "done", "raised"} =>
        \A id \in DOMAIN assignments :
            /\ \A a, b \in 1..Len(assignments[id]) :
                  a < b => assignments[id][a].pickup_time <= assignments[id][b].pickup_time
            /\ \A a \in 1..Len(assignments[id]) :
                  \A later \in idx..Len(rides) :
                      assignments[id][a].pickup_time <= rides[later].pickup_time

\* the later ride came first in the input and one driver got both rides
C10_Witness ==
    /\ pc = "done"
    /\ Len(input_rides) = 2
    /\ input_rides[1].pickup_time > input_rides[2].pickup_time
    /\ \E id \in DOMAIN assignments :
          /\ Len(assignments[id]) = 2
          /\ assignments[id][1] = input_rides[2]
          /\ assignments[id][2] = input_rides[1]

\* C11: when no driver is eligible for a ride, the ride is left unassigned
\* without any exception: it appears in no driver's list, and no driver's
\* availability tree or location is changed by processing that ride.
C11_NoEligibleLeavesUnassigned ==
    [][ScoringStep =>
        (Eligible(TravelTimes) = {} =>
            /\ pc' = "loop"
            /\ idx' = idx + 1
            /\ \A id \in DOMAIN assignments' :
                  \A a \in 1..Len(assignments'[id]) : assignments'[id][a] # CurrentRide
            /\ drivers' = drivers)]_vars

\* the ids of the drivers given to the run
InputDriverIds == {input_drivers[k].driver_id : k \in 1..Len(input_drivers)}

\* C12: the mapping returned by assign_rides_to_drivers has exactly the ids of
\* all input drivers as keys; a driver that receives no ride (its tree is
\* still the one it was constructed with) is present with an empty list.
C12_AllDriverIdsAreKeys ==
    pc = "done" =>
        /\ DOMAIN assignments = InputDriverIds
        /\ \A k \in 1..Len(drivers) :
              drivers[k].interval_tree = input_drivers[k].interval_tree =>
                  assignments[drivers[k].driver_id] = <<>>

\* the run returned, one of two drivers got a ride, the other is a key with
\* an empty list
C12_Witness ==
    /\ pc = "done" /\ Len(input_drivers) = 2
    /\ \E id1, id2 \in DOMAIN assignments :
          assignments[id1] # <<>> /\ assignments[id2] = <<>>

\* [pickup_time, pickup_time + duration] of a ride
RideWindow(ride) == <<ride.pickup_time, ride.pickup_time + ride.estimated_ride_duration>>

\* input driver k is free for the window of the ride, t minutes of travel
\* included
FreeFor(k, ride, t) ==
    is_available(input_drivers[k].interval_tree, RideWindow(ride)[1] - t, RideWindow(ride)[2])

\* the run of two rides and two drivers of the end-to-end test: the drop-off
\* of the earlier ride is the pickup of the later one, driver d1 starts at the
\* earlier pickup and is free for both ride windows, driver d2 has a positive
\* travel time to each pickup and is available for both
TwoRidesScenario(earlier, later, d1, d2) ==
    /\ Len(input_rides) = 2 /\ Len(input_drivers) = 2
    /\ earlier # later /\ d1 # d2
    /\ input_rides[earlier].pickup_time < input_rides[later].pickup_time
    /\ input_rides[earlier].dropoff_location = input_rides[later].pickup_location
    /\ input_drivers[d1].location = input_rides[earlier].pickup_location
    /\ FreeFor(d1, input_rides[earlier], 0)
    /\ FreeFor(d1, input_rides[later], 0)
    /\ \A r \in {earlier, later} :
          LET t == ShortestTime(graph, input_drivers[d2].location,
                                input_rides[r].pickup_location)
          IN  t > 0 /\ FreeFor(d2, input_rides[r], t)

\* driver d1 has both rides, the later one at no travel, driver d2 has none
BothRidesToFirst(earlier, later, d1, d2) ==
    /\ pc = "done"
    /\ assignments[input_drivers[d1].driver_id] =
           <<input_rides[earlier], input_rides[later]>>
    /\ assignments[input_drivers[d2].driver_id] = <<>>
    /\ scored.distance_to_pickup[d1] = <<0>>

\* C13 (as stated): in a run with two rides where the earlier ride's drop-off
\* is the later ride's pickup, a driver who starts at the earlier ride's
\* pickup and is free for both ride windows is assigned both rides (the second
\* at its updated location, travel time 0), and a second driver whose travel
\* time to each pickup is strictly positive is assigned no ride, even though
\* it is available for both.
C13_BothRidesToDriverAtPickup ==
    pc \in {"done", "raised"} =>
        \A earlier, later, d1, d2 \in 1..2 :
            TwoRidesScenario(earlier, later, d1, d2) =>
                BothRidesToFirst(earlier, later, d1, d2)

\* the earlier ride is over when the later one starts
RidesInSequence(earlier, later) ==
    RideWindow(input_rides[earlier])[2] <= RideWindow(input_rides[later])[1]

\* C13 (amended): the same, for two rides of which the earlier one ends no
\* later than the pickup time of the later one.
C13_BothRidesWhenInSequence ==
    pc \in {"done", "raised"} =>
        \A earlier, later, d1, d2 \in 1..2 :
            (TwoRidesScenario(earlier, later, d1, d2) /\ RidesInSequence(earlier, later)) =>
                BothRidesToFirst(earlier, later, d1, d2)

\* the run of the scenario is over, the driver that got both rides being the
\* second of the list
C13_Witness ==
    /\ pc = "done"
    /\ \E earlier, later \in 1..2 :
          /\ TwoRidesScenario(earlier, later, 2, 1)
          /\ RidesInSequence(earlier, later)
          /\ BothRidesToFirst(earlier, later, 2, 1)

\* C23: assign_rides_to_drivers never modifies the graph it is given: when
\* the loop runs and after the run the keys and the adjacency lists are those
\* that build_graph returned.
C23_GraphNotModified ==
    pc \in {"loop", "done", "raised"} => graph = build_graph(input_rides, input_drivers)

\* a run of two rides returned, _dijkstra having walked edges of the graph
\* for the ride scored last
C23_Witness ==
    /\ pc = "done" /\ Len(rides) = 2
    /\ \E k \in DriverIx : /\ Len(scored.distance_to_pickup) >= k
                           /\ scored.distance_to_pickup[k] # None
                           /\ scored.distance_to_pickup[k][1] > 0
    /\ \E id \in DOMAIN assignments : assignments[id] # <<>>

\* C24: scoring is read-only.  Processing a ride leaves the availability tree
\* and the location of every driver as they were, except for the driver the
\* ride is assigned to, whose state is changed by the write phase only: the
\* reservation of the ride window and the move to the drop-off.
C24_ScoringReadOnly ==
    [][\A k \in DriverIx :
          \/ drivers'[k] = drivers[k]
          \/ /\ AssignedTo(k)
             /\ drivers'[k] =
                    MoveTo(reserve_interval(drivers[k], CurrentRide.pickup_time,
                                            RideEndTime(CurrentRide)),
                           CurrentRide.dropoff_location)]_vars

\* the first ride was scored with two drivers found free for it: the one it
\* went to was changed, the other one is as it was given
C24_Witness ==
    /\ pc = "loop" /\ idx = 2 /\ Len(drivers) = 2
    /\ scored.best_driver # 0
    /\ scored.available = <<TRUE, TRUE>>
    /\ drivers[scored.best_driver] # input_drivers[scored.best_driver]
    /\ \E j \in DriverIx : j # scored.best_driver /\ drivers[j] = input_drivers[j]

\* the ride is in no driver's list of the mapping
InNoList(asg, ride) ==
    \A id \in DOMAIN asg : \A a \in 1..Len(asg[id]) : asg[id][a] # ride

\* C25: assignments are never reconsidered.  A ride recorded in a driver's
\* list stays in that list at the same position in every later step, and a
\* ride that was left unassigned when it was processed is in no list later.
C25_AssignmentsNeverReconsidered ==
    [][/\ \A id \in DOMAIN assignments : \A a \in 1..Len(assignments[id]) :
             /\ id \in DOMAIN assignments'
             /\ a <= Len(assignments'[id])
             /\ assignments'[id][a] = assignments[id][a]
       /\ \A r \in 1..(idx - 1) :
             InNoList(assignments, rides[r]) => InNoList(assignments', rides[r])]_vars

\* the run returned with the earlier ride unassigned and the later ride in
\* a driver's list
C25_Witness ==
    /\ pc = "done" /\ Len(rides) = 2
    /\ InNoList(assignments, rides[1])
    /\ ~InNoList(assignments, rides[2])

\* the windows of an availability list share no point
PairwiseDisjoint(availability) ==
    \A i, j \in 1..Len(availability) :
        i # j => ~Overlap(availability[i], availability[j])

\* C26: no double-booking.  For every driver whose initial free windows are
\* pairwise disjoint, no two rides in the driver's list have windows
\* [pickup_time, pickup_time + estimated_duration] that share more than an
\* endpoint (all rides have a positive duration).
C26_NoDoubleBooking ==
    \A k \in 1..Len(input_drivers) :
        LET id == input_drivers[k].driver_id
        IN  (PairwiseDisjoint(input_drivers[k].availability) /\ id \in DOMAIN assignments) =>
                \A a, b \in 1..Len(assignments[id]) :
                    a # b => \/ RideWindow(assignments[id][a])[2] <= RideWindow(assignments[id][b])[1]
                             \/ RideWindow(assignments[id][b])[2] <= RideWindow(assignments[id][a])[1]

\* the later ride starts within the window of the earlier one, at the place
\* where the driver of the earlier ride is; that driver was found not free
\* and the later ride went to another driver
C26_Witness ==
    /\ pc = "done" /\ Len(rides) = 2 /\ Len(drivers) = 2
    /\ rides[2].pickup_time < RideEndTime(rides[1])
    /\ scored.best_driver # 0
    /\ \E k \in DriverIx :
          /\ k # scored.best_driver
          /\ PairwiseDisjoint(input_drivers[k].availability)
          /\ assignments[drivers[k].driver_id] = <<rides[1]>>
          /\ scored.distance_to_pickup[k] = <<0>>
          /\ ~scored.available[k]
    /\ assignments[drivers[scored.best_driver].driver_id] = <<rides[2]>>

\* every interval stored in a driver's tree lies within one of the windows
\* the driver was constructed with
WithinInitialWindows ==
    \A k \in DriverIx : \A iv \in Stored(drivers[k].interval_tree) :
        \E n \in 1..Len(input_drivers[k].availability) :
            Contains(input_drivers[k].availability[n], iv[1], iv[2])

\* the times at which the stored intervals of a tree begin and end
Endpoints(root) == {iv[1] : iv \in Stored(root)} \cup {iv[2] : iv \in Stored(root)}

\* C32: free time never grows: at every point of a matching run every
\* interval stored in a driver's tree is contained in one of the windows the
\* driver was constructed with, and a query for which is_available is false
\* is still false after a reserve_interval call on that driver (queries
\* between the times at which stored intervals and the ride begin and end).
C32_FreeTimeNeverGrows ==
    [][/\ WithinInitialWindows
       /\ WithinInitialWindows'
       /\ \A k \in DriverIx :
             LET before == drivers[k].interval_tree
                 after == drivers'[k].interval_tree
                 times == Endpoints(before) \cup Endpoints(after)
                              \cup (IF AboutToScore
                                    THEN {CurrentRide.pickup_time, RideEndTime(CurrentRide)}
                                    ELSE {})
             IN  \A x, y \in times :
                     ~is_available(before, x, y) => ~is_available(after, x, y)]_vars

\* a driver constructed with two windows has two rides, one in each window,
\* and its tree holds what is left of both windows
C32_Witness ==
    /\ pc = "done"
    /\ \E k \in DriverIx :
          /\ Len(input_drivers[k].availability) = 2
          /\ PairwiseDisjoint(input_drivers[k].availability)
          /\ Len(assignments[drivers[k].driver_id]) = 2
          /\ drivers[k].interval_tree # input_drivers[k].interval_tree
          /\ Size(drivers[k].interval_tree) >= 2

\* the drivers whose tree, location or list of rides this step changes
ChangedDrivers ==
    { k \in DriverIx :
        \/ drivers'[k] # drivers[k]
        \/ assignments'[drivers[k].driver_id] # assignments[drivers[k].driver_id] }

\* C33: processing one ride changes the state of at most one driver: only
\* the driver the ride is assigned to has its tree, location and list
\* changed; the stored intervals, the location and the list of rides of
\* every other driver are unchanged.
C33_AtMostOneDriverChanged ==
    [][ScoringStep =>
        /\ Cardinality(ChangedDrivers) <= 1
        /\ \A k \in ChangedDrivers : AssignedTo(k) /\ scored'.best_driver = k]_vars

\* the second ride was given to a driver while the other driver keeps the
\* first ride, its reserved tree and its place at the first drop-off
C33_Witness ==
    /\ pc = "loop" /\ idx = 3 /\ Len(drivers) = 2
    /\ scored.best_driver # 0
    /\ assignments[drivers[scored.best_driver].driver_id] = <<rides[2]>>
    /\ \E j \in DriverIx :
          /\ j # scored.best_driver
          /\ assignments[drivers[j].driver_id] = <<rides[1]>>
          /\ drivers[j].location = rides[1].dropoff_location
          /\ drivers[j].interval_tree # input_drivers[j].interval_tree

\* the sum of f over the set S
RECURSIVE SumOver(_, _)
SumOver(f, S) ==
    IF S = {} THEN 0
    ELSE LET x == CHOOSE y \in S : TRUE IN f[x] + SumOver(f, S \ {x})

\* how many times the ride is in the lists of the mapping
TimesAssigned(asg, ids, ride) ==
    SumOver([id \in ids |-> Cardinality({a \in 1..Len(asg[id]) : asg[id][a] = ride})], ids)

\* C34: with unique driver ids, every input ride is in at most one driver's
\* list of the returned mapping, at most once in that list, and the number
\* of assigned rides is at most the number of input rides.
C34_RideAssignedAtMostOnce ==
    pc \in {"loop", "done", "raised"} =>
        /\ \A r \in 1..Len(input_rides) :
              TimesAssigned(assignments, DOMAIN assignments, input_rides[r]) <= 1
        /\ SumOver([id \in DOMAIN assignments |-> Len(assignments[id])], DOMAIN assignments)
               <= Len(input_rides)

\* the run returned with every one of its two rides assigned, and two
\* drivers to choose from
C34_Witness ==
    /\ pc = "done" /\ Len(input_rides) = 2 /\ Len(drivers) = 2
    /\ \A r \in 1..2 : TimesAssigned(assignments, DOMAIN assignments, input_rides[r]) = 1

\* the position of the ride in the list
PositionIn(rs, ride) == CHOOSE n \in 1..Len(rs) : rs[n] = ride

\* C35: rides with equal pickup_time are processed in their input order: of
\* two input rides with the same pickup_time the one earlier in the input
\* comes earlier in the sorted list the loop walks through, so it is scored
\* first, and it comes first in a list that holds both.
C35_EqualPickupTimesKeepInputOrder ==
    pc \in {"loop", "done", "raised"} =>
        \A i, j \in 1..Len(input_rides) :
            (i < j /\ input_rides[i].pickup_time = input_rides[j].pickup_time) =>
                /\ PositionIn(rides, input_rides[i]) < PositionIn(rides, input_rides[j])
                /\ \A id \in DOMAIN assignments : \A a, b \in 1..Len(assignments[id]) :
                      (assignments[id][a] = input_rides[j] /\ assignments[id][b] = input_rides[i])
                          => b < a

\* two rides with the same pickup_time: the one given first has a driver,
\* the other one was scored after it and has none
C35_Witness ==
    /\ pc = "done" /\ Len(input_rides) = 2
    /\ input_rides[1].pickup_time = input_rides[2].pickup_time
    /\ ~InNoList(assignments, input_rides[1])
    /\ InNoList(assignments, input_rides[2])

\* C38: every neighbour in an adjacency list of the graph returned by
\* build_graph is a key of the graph, and throughout the run every driver's
\* current location is a key of the graph, so that _dijkstra never looks up
\* a location that is missing from the graph.
C38_LookupsAreKeys ==
    pc \in {"assign", "loop", "done", "raised"} =>
        /\ \A u \in DOMAIN graph : \A n \in 1..Len(graph[u]) :
              graph[u][n][1] \in DOMAIN graph
        /\ \A k \in DriverIx : drivers[k].location \in DOMAIN graph

\* a driver who started at a place of its own, with edges to the pickups,
\* has been moved to the drop-off of a ride
C38_Witness ==
    /\ pc = "done"
    /\ \E k \in DriverIx :
          /\ input_drivers[k].location \notin
                 {input_rides[r].pickup_location : r \in 1..Len(input_rides)}
                     \cup {input_rides[r].dropoff_location : r \in 1..Len(input_rides)}
          /\ graph[input_drivers[k].location] # <<>>
          /\ drivers[k].location # input_drivers[k].location
          /\ drivers[k].location \in DOMAIN graph

(***************************************************************************)
(* build_graph on its own: rides and drivers are collected, then the graph *)
(* is built from them.                                                     *)
(***************************************************************************)

\* ------------------------------------------------------------------ bounds
MaxGraphRides == 3
MaxGraphDrivers == 2

GraphInit ==
    /\ tree = None
    /\ call = NoCall
    /\ rides = <<>> /\ drivers = <<>>
    /\ input_rides = <<>> /\ input_drivers = <<>>
    /\ graph = <<>>
    /\ assignments = <<>>
    /\ pc = "build_graph"
    /\ idx = 0
    /\ scored = [best_driver |-> 0, distance_to_pickup |-> <<>>, available |-> <<>>]
    /\ path_query = NoPathQuery

\* the rides given to build_graph: those of a run, and one that shares no
\* location with them
GraphRidePool == RidePool \cup { Ride(20, 3, "r5", 4, "r5", 4) }

\* one more ride in the list given to build_graph
GraphAddRide ==
    \E ride \in GraphRidePool :
        /\ pc = "build_graph"
        /\ Len(rides) < MaxGraphRides
        /\ \A r \in 1..Len(rides) : rides[r] # ride
        /\ rides' = Append(rides, ride)
        /\ input_rides' = rides'
        /\ UNCHANGED <<treeVars, drivers, graph, assignments, pc, idx, scored,
                       input_drivers, path_query>>

\* one more driver in the list given to build_graph
GraphAddDriver ==
    \E cfg \in DriverPool :
        /\ pc = "build_graph"
        /\ Len(drivers) < MaxGraphDrivers
        /\ drivers' = Append(drivers, Driver(Len(drivers) + 1, cfg[1], cfg[2], cfg[3]))
        /\ input_drivers' = drivers'
        /\ UNCHANGED <<treeVars, rides, graph, assignments, pc, idx, scored,
                       input_rides, path_query>>

GraphNext == GraphAddRide \/ GraphAddDriver \/ BuildGraph

SpecGraph == GraphInit /\ [][GraphNext]_vars

\* ------------------------------------------------ claims on build_graph
\* build_graph has returned
GraphBuilt == pc = "assign"

RideIx == 1..Len(input_rides)

\* the edges from one location to another in g, as positions in the list
EdgesTo(g, from, to) == { n \in 1..Len(g[from]) : g[from][n][1] = to }

\* C18: in the graph returned by build_graph, every driver's starting
\* location has a directed edge to every ride pickup location whose
\* pickup_time falls within at least one of that driver's declared
\* availability windows, for every input of rides and drivers (a driver who
\* starts at a ride pickup or drop-off, or at another driver's start, included).
C18_DriverEdgesToPickups ==
    GraphBuilt =>
        \A k \in 1..Len(input_drivers), r \in RideIx :
            InAvailability(input_drivers[k], input_rides[r]) =>
                EdgesTo(graph, input_drivers[k].location,
                        input_rides[r].pickup_location) # {}

\* the rides that contribute a ride edge from one location to another
RideEdgeCount(from, to) ==
    Cardinality({ r \in RideIx : /\ input_rides[r].pickup_location = from
                                 /\ input_rides[r].dropoff_location = to })
    + Cardinality({ r \in RideIx : /\ input_rides[r].dropoff_location = from
                                   /\ input_rides[r].pickup_location = to })

\* C19: in the graph returned by build_graph, every drop-off location has an
\* edge to the pickup location of every ride, and the idle-travel
\* (distance-based) edge for a (drop-off, pickup) pair is added at most once,
\* and only when the drop-off has no edge to that pickup yet.
C19_IdleEdgesOnce ==
    GraphBuilt =>
        \A d, r \in RideIx :
            LET from == input_rides[d].dropoff_location
                to == input_rides[r].pickup_location
                edges == EdgesTo(graph, from, to)
            IN  /\ edges # {}
                /\ Cardinality(edges) =
                       (IF RideEdgeCount(from, to) = 0 THEN 1 ELSE RideEdgeCount(from, to))
                /\ RideEdgeCount(from, to) = 0 =>
                       \A n \in edges : graph[from][n][2] = TravelTime(from, to)

\* two rides end at the same drop-off, which got one idle-travel edge to a
\* pickup that no ride links it to
C19_Witness ==
    /\ GraphBuilt /\ Len(input_rides) = 3
    /\ input_rides[1].dropoff_location = input_rides[2].dropoff_location
    /\ \E r \in RideIx :
          LET from == input_rides[1].dropoff_location
              to == input_rides[r].pickup_location
          IN  /\ RideEdgeCount(from, to) = 0
              /\ Cardinality(EdgesTo(graph, from, to)) = 1

\* C20: for every ride, the graph returned by build_graph contains an edge
\* from its pickup location to its drop-off location and an edge from its
\* drop-off location to its pickup location, both weighted by that ride's
\* estimated duration.
C20_RideEdgesBothWays ==
    GraphBuilt =>
        \A r \in RideIx :
            LET ride == input_rides[r]
            IN  /\ \E n \in EdgesTo(graph, ride.pickup_location, ride.dropoff_location) :
                      graph[ride.pickup_location][n][2] = ride.estimated_ride_duration
                /\ \E n \in EdgesTo(graph, ride.dropoff_location, ride.pickup_location) :
                      graph[ride.dropoff_location][n][2] = ride.estimated_ride_duration

\* the graph of two rides was built, the drop-off of one being the pickup of
\* the other, whose duration is not the travel time between its two ends
C20_Witness ==
    /\ GraphBuilt /\ Len(input_rides) = 2
    /\ input_rides[1].dropoff_location = input_rides[2].pickup_location
    /\ Len(graph[input_rides[1].dropoff_location]) >= 2
    /\ input_rides[2].estimated_ride_duration #
           TravelTime(input_rides[2].pickup_location, input_rides[2].dropoff_location)

\* the locations that build_graph is given
PickupLocations == { input_rides[r].pickup_location : r \in RideIx }

DropoffLocations == { input_rides[r].dropoff_location : r \in RideIx }

DriverLocations == { input_drivers[k].location : k \in 1..Len(input_drivers) }

\* C21: the graph returned by build_graph has a key (with a possibly empty
\* neighbour list) for every ride pickup location, every ride drop-off
\* location and every driver starting location.
C21_EveryLocationIsKey ==
    GraphBuilt =>
        PickupLocations \cup DropoffLocations \cup DriverLocations \subseteq DOMAIN graph

\* a driver who starts away from every ride and is free at no pickup time
\* has a key with an empty neighbour list
C21_Witness ==
    /\ GraphBuilt /\ input_rides # <<>>
    /\ \E l \in DriverLocations :
          /\ l \notin PickupLocations \cup DropoffLocations
          /\ l \in DOMAIN graph /\ graph[l] = <<>>

\* C22 as stated: the graph returned by build_graph is symmetric, whenever
\* it has an edge from location u to location v it also has an edge from v
\* to u.
C22_EveryEdgeHasReverse ==
    GraphBuilt =>
        \A u \in DOMAIN graph : \A n \in 1..Len(graph[u]) :
            EdgesTo(graph, graph[u][n][1], u) # {}

\* C22, amended: in the graph returned by build_graph only the ride edges
\* are symmetric; an edge from u to v without an edge from v to u is a
\* repositioning edge, weighted by the travel time from u to v, that leads
\* from a drop-off location or a driver's starting location to a pickup
\* location that no ride links to u.
C22_OnlyRepositioningEdgesOneWay ==
    GraphBuilt =>
        \A u \in DOMAIN graph : \A n \in 1..Len(graph[u]) :
            LET v == graph[u][n][1]
            IN  EdgesTo(graph, v, u) = {} =>
                    /\ RideEdgeCount(u, v) = 0
                    /\ graph[u][n][2] = TravelTime(u, v)
                    /\ v \in PickupLocations
                    /\ u \in DropoffLocations \cup DriverLocations

\* a graph was built in which a drop-off location has an edge to a pickup
\* location that has no edge back to it
C22_Witness ==
    /\ GraphBuilt /\ input_drivers # <<>>
    /\ \E u \in DropoffLocations : \E n \in 1..Len(graph[u]) :
          /\ graph[u][n][1] \in PickupLocations
          /\ EdgesTo(graph, graph[u][n][1], u) = {}

\* the locations that paths of g lead to from the locations seen
RECURSIVE ReachableFrom(_, _)
ReachableFrom(g, seen) ==
    LET next == seen \cup UNION { {g[u][n][1] : n \in 1..Len(g[u])} : u \in seen }
    IN  IF next = seen THEN seen ELSE ReachableFrom(g, next)

\* C37: in the graph returned by build_graph every ride pickup location is
\* reachable from every ride pickup and every ride drop-off location, so
\* _dijkstra returns a travel time, not None, to every pickup for a driver
\* who starts at a ride location and for a driver who stands at the
\* drop-off of a ride it was assigned.
C37_PickupsReachableFromRideLocations ==
    GraphBuilt =>
        \A u \in PickupLocations \cup DropoffLocations :
            /\ PickupLocations \subseteq ReachableFrom(graph, {u})
            /\ \A v \in PickupLocations : _dijkstra(graph, u, v) # None

\* two rides share no location, and a travel time is found from the pickup
\* of each to the pickup of the other
C37_Witness ==
    /\ GraphBuilt
    /\ \E a, b \in RideIx :
          /\ {input_rides[a].pickup_location, input_rides[a].dropoff_location}
                 \cap {input_rides[b].pickup_location, input_rides[b].dropoff_location} = {}
          /\ _dijkstra(graph, input_rides[a].pickup_location,
                       input_rides[b].pickup_location) # None
          /\ _dijkstra(graph, input_rides[b].pickup_location,
                       input_rides[a].pickup_location) # None

(***************************************************************************)
(* Part 3: Ride._dijkstra on its own, on graphs given as adjacency lists.  *)
(***************************************************************************)

\* ------------------------------------------------------------------ bounds
\* a graph has at most MaxEdges edges
MaxEdges == 3
\* edge weights are 0..MaxWeight
MaxWeight == 1

\* the nodes of a graph: three locations
GraphNodes == {0, 1, 2}

\* the number of edges of g
EdgeCount(g) == SumOver([n \in DOMAIN g |-> Len(g[n])], DOMAIN g)

\* a graph of isolated nodes, every other part of the program idle
DijkstraInit ==
    /\ tree = None
    /\ call = NoCall
    /\ rides = <<>> /\ drivers = <<>> /\ assignments = <<>>
    /\ pc = "idle" /\ idx = 0 /\ input_rides = <<>> /\ input_drivers = <<>>
    /\ scored = [best_driver |-> 0, distance_to_pickup |-> <<>>, available |-> <<>>]
    /\ graph = [n \in GraphNodes |-> <<>>]
    /\ path_query = NoPathQuery

\* one more (neighbor, weight) tuple in the list of a node; an edge from a
\* node to itself is left out, its relaxation never lowers a distance
DijkstraAddEdge ==
    \E from, to \in GraphNodes, weight \in 0..MaxWeight :
        /\ ~path_query.called
        /\ from # to
        /\ EdgeCount(graph) < MaxEdges
        /\ graph' = [graph EXCEPT ![from] = Append(@, <<to, weight>>)]
        /\ UNCHANGED <<treeVars, rides, drivers, assignments, pc, idx, scored,
                       input_rides, input_drivers, path_query>>

\* self._dijkstra(graph, start, end)
DijkstraCall ==
    \E start, end \in GraphNodes :
        /\ ~path_query.called
        /\ path_query' = [start |-> start, end |-> end,
                          result |-> _dijkstra(graph, start, end), called |-> TRUE]
        /\ UNCHANGED <<treeVars, rides, drivers, graph, assignments, pc, idx, scored,
                       input_rides, input_drivers>>

DijkstraNext == DijkstraAddEdge \/ DijkstraCall

SpecDijkstra == DijkstraInit /\ [][DijkstraNext]_vars

\* C14: for every graph with non-negative edge weights and every pair of
\* nodes (start, end) of the graph, _dijkstra(graph, start, end) returns the
\* minimum total weight over all directed paths from start to end (0 when
\* start = end), and None when end is not reachable from start.
C14_DijkstraIsShortestPath ==
    path_query.called =>
        LET least == ShortestTime(graph, path_query.start, path_query.end)
        IN  /\ path_query.result = (IF least = inf THEN None ELSE <<least>>)
            /\ path_query.start = path_query.end => path_query.result = <<0>>

\* the answer is the weight of a path of two edges, less than the weight of
\* the edge from start to end
C14_Witness ==
    /\ path_query.called /\ path_query.result # None
    /\ path_query.start # path_query.end
    /\ \E n \in 1..Len(graph[path_query.start]) :
          /\ graph[path_query.start][n][1] = path_query.end
          /\ graph[path_query.start][n][2] > path_query.result[1]

\* ------------------------------------- _dijkstra, one loop iteration a step
\* the (from, to, weight) tuples a graph is made of: zero-weight edges from
\* a location to itself, two edges of different weight between the same two
\* locations, a cycle of weight zero
LoopEdges ==
    { <<0, 0, 0>>, <<1, 1, 0>>, <<0, 1, 1>>, <<0, 1, 0>>,
      <<0, 2, 0>>, <<2, 0, 0>>, <<1, 2, 1>>, <<2, 1, 1>> }

\* one more (neighbor, weight) tuple in the list of a node
LoopAddEdge ==
    \E e \in LoopEdges :
        /\ ~path_query.called
        /\ EdgeCount(graph) < MaxEdges
        /\ graph' = [graph EXCEPT ![e[1]] = Append(@, <<e[2], e[3]>>)]
        /\ UNCHANGED <<treeVars, rides, drivers, assignments, pc, idx, scored,
                       input_rides, input_drivers, path_query>>

\* the lines before the while loop: queue, distances, visited; expanded
\* lists the nodes whose edges were walked, skipped tells whether a popped
\* tuple was dropped because its node was visited
DijkstraEnter ==
    \E start, end \in GraphNodes :
        /\ ~path_query.called
        /\ path_query' =
               [start |-> start, end |-> end, result |-> None, called |-> TRUE,
                returned |-> FALSE,
                queue |-> {<<0, start>>},
                distances |-> [n \in DOMAIN graph \cup {start} |-> IF n = start THEN 0 ELSE inf],
                visited |-> {}, skipped |-> FALSE, expanded |-> <<>>]
        /\ UNCHANGED <<treeVars, rides, drivers, graph, assignments, pc, idx, scored,
                       input_rides, input_drivers>>

\* faulty variant of AfterPop: the least tuple stays in the queue
AfterPop_Peek(queue) == queue

\* the queue after heapq.heappop(queue)
AfterPop(queue) == queue \ {PopMin(queue)}

\* one iteration of the while loop
DijkstraIterate ==
    /\ path_query.called /\ ~path_query.returned
    /\ path_query.queue # {}
    /\ LET q == path_query
           current_distance == PopMin(q.queue)[1]
           current_node == PopMin(q.queue)[2]
           rest == AfterPop(q.queue)
           q1 == [q EXCEPT !.queue = rest]
       IN  path_query' =
               IF current_node \in q.visited THEN [q1 EXCEPT !.skipped = TRUE]
               ELSE IF current_node = q.end
                    THEN [q1 EXCEPT !.returned = TRUE, !.result = <<current_distance>>]
               ELSE IF current_distance > q.distances[current_node]
                    THEN [q1 EXCEPT !.visited = @ \cup {current_node}]
               ELSE LET st == Relax([queue |-> rest, distances |-> q.distances],
                                    graph[current_node], current_distance)
                    IN  [q1 EXCEPT !.queue = st.queue, !.distances = st.distances,
                                   !.visited = @ \cup {current_node},
                                   !.expanded = Append(@, current_node)]
    /\ UNCHANGED <<treeVars, rides, drivers, graph, assignments, pc, idx, scored,
                   input_rides, input_drivers>>

\* the return after the while loop, the queue being empty
DijkstraExit ==
    /\ path_query.called /\ ~path_query.returned
    /\ path_query.queue = {}
    /\ path_query' =
           [path_query EXCEPT
               !.returned = TRUE,
               !.result = IF path_query.distances[path_query.end] # inf
                          THEN <<path_query.distances[path_query.end]>> ELSE None]
    /\ UNCHANGED <<treeVars, rides, drivers, graph, assignments, pc, idx, scored,
                   input_rides, input_drivers>>

DijkstraStepsNext == LoopAddEdge \/ DijkstraEnter \/ DijkstraIterate \/ DijkstraExit

\* a call that was entered goes on: the loop is not preempted
SpecDijkstraSteps ==
    /\ DijkstraInit /\ [][DijkstraStepsNext]_vars
    /\ WF_vars(DijkstraIterate) /\ WF_vars(DijkstraExit)

\* the call has returned
DijkstraReturned == path_query.called /\ path_query.returned

NoRepeat(seq) == \A a, b \in 1..Len(seq) : a # b => seq[a] # seq[b]

\* C39: _dijkstra terminates on every finite graph with non-negative edge
\* weights, zero-weight edges from a node to itself and several edges
\* between the same two nodes included: no node has its edges walked more
\* than once, and every call that was entered returns, the target popped or
\* the queue empty, with the value of _dijkstra.
C39_DijkstraTerminates ==
    /\ [](path_query.called => NoRepeat(path_query.expanded))
    /\ [](path_query.called => <>DijkstraReturned)
    /\ [](DijkstraReturned =>
             path_query.result = _dijkstra(graph, path_query.start, path_query.end))

\* a call returned on a graph with a zero-weight edge from a walked node to
\* itself, after a tuple of a visited node was popped and skipped
C39_Witness ==
    /\ DijkstraReturned
    /\ path_query.skipped
    /\ NoRepeat(path_query.expanded)
    /\ \E a \in 1..Len(path_query.expanded) :
          LET node == path_query.expanded[a]
          IN  \E n \in 1..Len(graph[node]) : graph[node][n] = <<node, 0>>

====
